---- MODULE Spec2Model ----
(***************************************************************************)
(* The reddit comment-chain harvester of edward.py (reddit_training and    *)
(* the helpers it calls: chat_bot, get_reddit, get_reddit_envars).         *)
(*                                                                         *)
(* A text is a sequence of one-character strings.  A thread of the content *)
(* source is a record [author, parent, body]: comment n has parent         *)
(* parent[n] (0 for a top-level comment) and text body[n]; the replies of  *)
(* a comment are its children in id order.                                 *)
(***************************************************************************)
EXTENDS Integers, Sequences, FiniteSets, TLC

VARIABLES
    env,            \* os.environ restricted to the four REDDIT_* variables
    script,         \* the content source: unconstrained, or a static mock
    run,            \* which invocation of reddit_training this is (1, 2, ...)
    pc,             \* position of the control flow in reddit_training
    exc,            \* the exception being raised (NONE when none is in flight)
    uncaught,       \* the exception that left reddit_training (NONE when none)
    exitStatus,     \* statuses passed to sys.exit ({} while the process runs)
    connections,    \* remote services a client object has been opened to
    bot,            \* local bot       ("unbound" before chat_bot returns)
    reddit,         \* local reddit    ("unbound" before get_reddit returns)
    idx,            \* number of submissions the listing generator has yielded
    submission,     \* loop variable submission (a thread id, 0 when unbound)
    comments_list,  \* local comments_list
    ci,             \* position of the loop over comments_list
    ri,             \* position of the loop over comment.replies
    sub_comments,   \* local sub_comments
    sub_nodes,      \* history: the comment each element of sub_comments is from
    trained,        \* history: the calls bot.train received, in order
    log,            \* LOG records of level WARNING and above, in order
    backoffs,       \* the back-off sleeps made, in seconds, in order
    outcomes,       \* history: how the processing of each submission ended
    store,          \* the bot's database bot_db: the sequences it was trained on
    firstRun,       \* history: what bot.train received in the previous run
    args,           \* history: the arguments reddit_training was called with
    sub,            \* parameter sub of reddit_training
    lim,            \* parameter lim of reddit_training (<<>> is None, <<n>> is n)
    credentials,    \* the tuple a get_*_envars function returned (<<>>: none)
    steps,          \* history: the calls made for the submission in hand
    event,          \* the data on_data is handling (<<>> between two calls)
    delivered,      \* the events the stream has delivered to on_data so far
    sent,           \* the calls of api.send_direct_message
    learned,        \* the calls of bot.learn_response
    session         \* the calls of bot.conversation_sessions.update

vars == <<env, script, run, pc, exc, uncaught, exitStatus, connections, bot,
          reddit, idx, submission, comments_list, ci, ri, sub_comments,
          sub_nodes, trained, log, backoffs, outcomes, store, firstRun,
          args, sub, lim, credentials, steps,
          event, delivered, sent, learned, session>>

\* The variables of the twitter listener.
twitter == <<event, delivered, sent, learned, session>>

NONE == "None"

\* No twitter stream is open.
NoStream ==
    /\ event = <<>>
    /\ delivered = <<>>
    /\ sent = <<>>
    /\ learned = <<>>
    /\ session = <<>>

(***************************************************************************)
(* Bounds of the model and constants of the program.                       *)
(***************************************************************************)
MaxThreads == 2

MaxRuns == 2

MaxReplyLength == 80

MinSequenceLength == 5

BackoffSeconds == 60

ConnectBackoffSeconds == 10

\* lim = 9 when the caller's lim is not truthy
DefaultLimit == 9

\* reddit_training(sub='all', lim=99) in main
MainLimit == 99

\* ------------------------------------------------------------------ texts

\* str.strip(chars): drops every leading and trailing character that is in
\* the set chars.
RECURSIVE LStrip(_, _)
LStrip(s, chars) ==
    IF s # <<>> /\ Head(s) \in chars THEN LStrip(Tail(s), chars) ELSE s

RECURSIVE RStrip(_, _)
RStrip(s, chars) ==
    IF s # <<>> /\ s[Len(s)] \in chars
    THEN RStrip(SubSeq(s, 1, Len(s) - 1), chars)
    ELSE s

Strip(s, chars) == RStrip(LStrip(s, chars), chars)

\* reply = rep.body.strip('/r/').strip('^')
CleanReply(body) == Strip(Strip(body, {"/", "r"}), {"^"})

RemovedMarker == <<"[", "r", "e", "m", "o", "v", "e", "d", "]">>

\* A length test that lets a reply of exactly 80 characters through.
ShortEnoughInclusive(reply) == Len(reply) <= MaxReplyLength

\* if len(reply) < 80:
ShortEnough(reply) == Len(reply) < MaxReplyLength

\* A marker test that rejects nothing.
NotRemovedNever(reply) == TRUE

\* if not reply == '[removed]':
NotRemoved(reply) == reply # RemovedMarker

\* The two nested tests a cleaned reply passes before it is appended.
Accepted(reply) == ShortEnough(reply) /\ NotRemoved(reply)

\* A threshold test that is off by one.
LongEnoughOffByOne(seq) == ~(Len(seq) < MinSequenceLength - 1)

\* if len(sub_comments) < 5: skip, else train
LongEnough(seq) == ~(Len(seq) < MinSequenceLength)

\* ---------------------------------------------------- the content source

Xs(n) == [i \in 1..n |-> "x"]

Hi == <<"h", "i">>
MarkedOk == <<"/", "r", "/", "o", "k", "^">>
Long80 == Xs(MaxReplyLength)
MarkedLong == <<"/", "r", "/">> \o Xs(MaxReplyLength - 1) \o <<"^">>
MarkedRemoved == <<"^">> \o RemovedMarker \o <<"^">>
Red == <<"r", "e", "d">>

\* parent vectors: a comment with four (seven) replies; and a comment whose
\* two replies, numbered 2 and 7, have four replies each.
Star4 == <<0, 1, 1, 1, 1>>
Star7 == <<0, 1, 1, 1, 1, 1, 1, 1>>
TwoHeads == <<0, 1, 2, 2, 2, 2, 1, 7, 7, 7, 7>>

\* The threads the source can serve.
\*  1: a deleted submission (no author) over a tree that would train;
\*  2: four replies of which one is 80 long (three are accepted);
\*  3: seven replies: one short with markers, one 80 long, one 79 long once
\*     cleaned, two removed, two short, of which one starts with an r;
\*  4: a reply that is 80 long and a reply that is removed, each of them the
\*     head of four short replies.
ThreadTable == <<
    [author |-> FALSE, parent |-> Star4,
     body |-> <<Hi, <<"a">>, <<"b">>, <<"c">>, <<"d">>>>],
    [author |-> TRUE, parent |-> Star4,
     body |-> <<Hi, <<"a">>, Long80, <<"c">>, <<"d">>>>],
    [author |-> TRUE, parent |-> Star7,
     body |-> <<Hi, MarkedOk, Long80, MarkedLong, RemovedMarker,
                MarkedRemoved, <<"c">>, Red>>],
    [author |-> TRUE, parent |-> TwoHeads,
     body |-> <<Hi, Long80, <<"a">>, <<"b">>, <<"c">>, <<"d">>,
                RemovedMarker, <<"e">>, <<"f">>, <<"g">>, <<"h">>>>] >>

ThreadIds == DOMAIN ThreadTable

Author(t) == ThreadTable[t].author
Body(t, n) == ThreadTable[t].body[n]
Nodes(t) == DOMAIN ThreadTable[t].parent

\* The children of node p (0: the submission itself) in source order.
RECURSIVE ChildrenFrom(_, _, _)
ChildrenFrom(t, p, n) ==
    IF n > Len(ThreadTable[t].parent) THEN <<>>
    ELSE (IF ThreadTable[t].parent[n] = p THEN <<n>> ELSE <<>>)
         \o ChildrenFrom(t, p, n + 1)

\* comment.replies of every comment of every thread.
RepliesTable ==
    [t \in ThreadIds |-> [c \in Nodes(t) |-> ChildrenFrom(t, c, 1)]]

\* comment.replies
Replies(t, c) == RepliesTable[t][c]

\* submission.comments.list(): the comment forest in breadth-first order.
RECURSIVE FlattenQueue(_, _)
FlattenQueue(t, queue) ==
    IF queue = <<>> THEN <<>>
    ELSE <<Head(queue)>> \o FlattenQueue(t, Tail(queue) \o Replies(t, Head(queue)))

FlattenTable ==
    [t \in ThreadIds |-> FlattenQueue(t, ChildrenFrom(t, 0, 1))]

\* A flattening that lists every comment twice.
FlattenTwice(t) == FlattenTable[t] \o FlattenTable[t]

Flatten(t) == FlattenTable[t]

\* What the source can raise, as reddit_training tells the kinds apart.
PrawKinds == {"APIException", "ClientException", "PRAWException"}
AssertionKinds == {"AssertionError 429", "AssertionError"}
SourceErrors == PrawKinds \cup AssertionKinds

\* Further exceptions, told apart by their message: assertion failures
\* whose message has 429 inside a longer number, or has the three digits
\* apart, and a praw exception whose message is the code.
AssertionVariants == {"AssertionError 14290", "AssertionError 4 2 9"}
PrawVariants == {"PRAWException 429"}

\* '%s' % exc: the message of the exception, as its characters.
MessageOf(kind) ==
    CASE kind = "AssertionError 429" ->
            <<"r", "e", "c", "e", "i", "v", "e", "d", " ", "4", "2", "9",
              " ", "H", "T", "T", "P">>
      [] kind = "AssertionError 14290" -> <<"1", "4", "2", "9", "0">>
      [] kind = "AssertionError 4 2 9" -> <<"4", " ", "2", " ", "9">>
      [] kind = "PRAWException 429" -> <<"4", "2", "9">>
      [] kind = "AssertionError" -> <<>>
      [] OTHER -> <<"e", "r", "r", "o", "r">>

\* The text the except clauses look for.
Code429 == <<"4", "2", "9">>

\* word in text, for two strings: text is scanned from position i for a
\* place where word begins.
RECURSIVE ContainsFrom(_, _, _)
ContainsFrom(text, word, i) ==
    IF i + Len(word) - 1 > Len(text) THEN FALSE
    ELSE IF SubSeq(text, i, i + Len(word) - 1) = word THEN TRUE
    ELSE ContainsFrom(text, word, i + 1)

Contains(text, word) == ContainsFrom(text, word, 1)

\* The kinds the source raises: those every source can raise, and those a
\* mock is scripted to raise.
Raisable == SourceErrors \cup {f.kind : f \in script.faults}

RedditVars ==
    <<"REDDIT_CLIENT_ID", "REDDIT_CLIENT_SECRET", "REDDIT_USERNAME",
      "REDDIT_PASSWORD">>

FullEnv == [v \in 1..Len(RedditVars) |-> "x"]

Envs == [1..Len(RedditVars) -> {NONE, "x"}]

\* The variables of the other three credential functions, in the order of
\* their tests.
GitterVars == <<"GITTER_ROOM", "GITTER_API_TOKEN">>

HipchatVars == <<"HIPCHAT_HOST", "HIPCHAT_ROOM", "HIPCHAT_ACCESS_TOKEN">>

TwitterVars ==
    <<"TWITTER_KEY", "TWITTER_SECRET", "TWITTER_TOKEN", "TWITTER_TOKEN_SECRET">>

\* What os.environ.get can give for a variable: None, the empty string, or
\* some text.
EnvValues == {NONE, "", "x"}

\* A test that would take the empty string for an unset variable.
FirstUnsetOrEmpty(e) ==
    IF \E v \in DOMAIN e : e[v] \in {NONE, ""}
    THEN CHOOSE v \in DOMAIN e :
            /\ e[v] \in {NONE, ""}
            /\ \A u \in 1..(v - 1) : e[u] \notin {NONE, ""}
    ELSE 0

\* The first variable get_reddit_envars finds unset (0 when all are set).
RECURSIVE FirstMissingFrom(_, _)
FirstMissingFrom(e, v) ==
    IF v > Len(e) THEN 0
    ELSE IF e[v] = NONE THEN v
    ELSE FirstMissingFrom(e, v + 1)

FirstMissing(e) == FirstMissingFrom(e, 1)

\* ------------------------------------------------- the source's behaviour

\* Where the harvester is, as the source sees it: the request it is about to
\* make, and the submission (by position in the listing) it makes it for.
Here ==
    CASE pc = "comment" -> <<pc, ci, 0>>
      [] pc = "reply" -> <<pc, ci, ri>>
      [] pc = "check" -> <<pc, ci, 0>>
      [] OTHER -> <<pc, 0, 0>>

HereThread ==
    CASE pc = "loop" -> idx + 1
      [] pc \in {"praw", "listing"} -> 0
      [] OTHER -> idx

\* An unconstrained source may answer or fail any request; a static mock
\* fails exactly the requests its script names and answers the others.
MayRaise(kind) ==
    \/ ~script.mock
    \/ [thread |-> HereThread, at |-> Here, kind |-> kind] \in script.faults

MayAnswer ==
    \/ ~script.mock
    \/ \A f \in script.faults : ~(f.thread = HereThread /\ f.at = Here)

\* An unconstrained source serves, in any order and number, the threads
\* its listing names (any thread when it names none); a static mock serves
\* its listing as it is.
MayYield(t) ==
    \/ ~script.mock /\ script.listing = <<>>
    \/ ~script.mock /\ \E i \in DOMAIN script.listing : script.listing[i] = t
    \/ script.mock /\ idx < Len(script.listing) /\ script.listing[idx + 1] = t

MayBeExhausted ==
    \/ ~script.mock
    \/ idx = Len(script.listing)

Unscripted == [mock |-> FALSE, listing |-> <<>>, faults |-> {}]

\* ------------------------------------------------------------ the caller

\* An optional integer: <<>> is None and <<n>> is the integer n.
NoLimit == <<>>

\* sub = 'all' when the caller's sub is not truthy
DefaultSub == "all"

\* The call main makes: reddit_training(sub='all', lim=99).
MainArgs == [sub |-> "all", lim |-> <<MainLimit>>]

\* if sub: (None and the empty string are false)
SubIsTruthy(v) == v # NONE /\ v # ""

\* if lim: (None and 0 are false)
LimIsTruthy(v) == v # NoLimit /\ v[1] # 0

\* --------------------------------------------------------------- control

InTry == {"attrs", "expand", "comment", "reply", "check"}
Terminal == {"done", "exit", "crashed"}
Init ==
    /\ env \in Envs
    /\ script = Unscripted
    /\ run = 1
    /\ pc = "chat_bot"
    /\ exc = NONE
    /\ uncaught = NONE
    /\ exitStatus = {}
    /\ connections = {}
    /\ bot = "unbound"
    /\ reddit = "unbound"
    /\ idx = 0
    /\ submission = 0
    /\ comments_list = <<>>
    /\ ci = 0
    /\ ri = 0
    /\ sub_comments = <<>>
    /\ sub_nodes = <<>>
    /\ trained = <<>>
    /\ log = <<>>
    /\ backoffs = <<>>
    /\ outcomes = <<>>
    /\ store = {}
    /\ firstRun = <<>>
    /\ args = MainArgs
    /\ sub = args.sub
    /\ lim = args.lim
    /\ credentials = <<>>
    /\ steps = <<>>
    /\ NoStream

\* bot = chat_bot(): ChatBot(...) builds its MongoDatabaseAdapter on
\* database_uri mongodb://mongo:27017/, which opens the client to it.
chat_bot ==
    /\ pc = "chat_bot"
    /\ exc = NONE
    /\ bot' = "Default Bot"
    /\ connections' = connections \cup {"mongo"}
    /\ pc' = "get_reddit_envars"
    /\ UNCHANGED <<twitter, env, script, run, exc, uncaught, exitStatus, reddit, idx,
                   submission, comments_list, ci, ri, sub_comments, sub_nodes,
                   trained, log, backoffs, outcomes, store, firstRun,
                   args, sub, lim, credentials, steps>>

\* get_reddit_envars(): the first unset variable is reported and the process
\* exits with status 1; with all four set the credentials are returned.
get_reddit_envars ==
    /\ pc = "get_reddit_envars"
    /\ exc = NONE
    /\ IF FirstMissing(env) # 0
       THEN /\ log' = Append(log, <<"ERROR", "export", RedditVars[FirstMissing(env)]>>)
            /\ exitStatus' = {1}
            /\ pc' = "exit"
            /\ UNCHANGED credentials
       ELSE /\ pc' = "praw"
            /\ credentials' = env
            /\ UNCHANGED <<log, exitStatus>>
    /\ UNCHANGED <<twitter, env, script, run, exc, uncaught, connections, bot, reddit,
                   idx, submission, comments_list, ci, ri, sub_comments,
                   sub_nodes, trained, backoffs, outcomes, store, firstRun,
                   args, sub, lim, steps>>

\* reddit = praw.Reddit(...) succeeds; get_reddit returns it.
praw_Reddit ==
    /\ pc = "praw"
    /\ exc = NONE
    /\ MayAnswer
    /\ reddit' = "client"
    /\ connections' = connections \cup {"reddit"}
    /\ pc' = "listing"
    /\ UNCHANGED <<twitter, env, script, run, exc, uncaught, exitStatus, bot, idx,
                   submission, comments_list, ci, ri, sub_comments, sub_nodes,
                   trained, log, backoffs, outcomes, store, firstRun,
                   args, sub, lim, credentials, steps>>

\* praw.Reddit(...) raises.
praw_Reddit_raises ==
    /\ pc = "praw"
    /\ exc = NONE
    /\ \E kind \in Raisable : MayRaise(kind) /\ exc' = kind
    /\ connections' = connections \cup {"reddit"}
    /\ UNCHANGED <<twitter, env, script, run, pc, uncaught, exitStatus, bot, reddit,
                   idx, submission, comments_list, ci, ri, sub_comments,
                   sub_nodes, trained, log, backoffs, outcomes, store, firstRun,
                   args, sub, lim, credentials, steps>>

\* isinstance(exception, class) for the classes the except clauses name:
\* APIException and ClientException derive from PRAWException.
IsInstance(kind, class) ==
    \/ kind = class
    \/ class = "PRAWException" /\ kind \in PrawKinds \cup PrawVariants
    \/ class = "AssertionError" /\ kind \in AssertionKinds \cup AssertionVariants

\* A rate-limit test that never finds the code.
HasCode429Never(kind) == FALSE

\* A rate-limit test that wants the message to be the code and no more.
HasCode429Exact(kind) == MessageOf(kind) = Code429

\* if '429' in '%s' % exc:
HasCode429(kind) == Contains(MessageOf(kind), Code429)

\* get_reddit's "except AssertionError": a 429 is logged and slept on (10 s);
\* either way control falls to "return reddit" with reddit never assigned,
\* which raises UnboundLocalError out of get_reddit.
get_reddit_except ==
    /\ pc = "praw"
    /\ exc # NONE
    /\ IsInstance(exc, "AssertionError")
    /\ log' = IF HasCode429(exc)
              THEN log \o << <<"WARNING", "Exceeding rate limits", exc>>,
                             <<"WARNING", "sleeping for 10 seconds", exc>> >>
              ELSE log
    /\ backoffs' = IF HasCode429(exc)
                   THEN Append(backoffs, ConnectBackoffSeconds)
                   ELSE backoffs
    /\ exc' = "UnboundLocalError"
    /\ UNCHANGED <<twitter, env, script, run, pc, uncaught, exitStatus, connections,
                   bot, reddit, idx, submission, comments_list, ci, ri,
                   sub_comments, sub_nodes, trained, outcomes, store,
                   firstRun,
                   args, sub, lim, credentials, steps>>

\* reddit.read_only = True, the defaults of sub and lim, and the call
\* reddit.subreddit(sub).hot(limit=lim), which makes a fresh generator.
open_listing ==
    /\ pc = "listing"
    /\ exc = NONE
    /\ sub' = IF SubIsTruthy(sub) THEN sub ELSE DefaultSub
    /\ lim' = IF LimIsTruthy(lim) THEN lim ELSE <<DefaultLimit>>
    /\ idx' = 0
    /\ pc' = "loop"
    /\ UNCHANGED <<twitter, env, script, run, exc, uncaught, exitStatus, connections,
                   bot, reddit, submission, comments_list, ci, ri,
                   sub_comments, sub_nodes, trained, log, backoffs, outcomes,
                   store, firstRun,
                   args, credentials, steps>>

\* for submission in ...: the generator yields the next submission.
next_submission ==
    /\ pc = "loop"
    /\ exc = NONE
    /\ idx < MaxThreads
    /\ idx < lim[1]
    /\ MayAnswer
    /\ \E t \in ThreadIds : MayYield(t) /\ submission' = t
    /\ idx' = idx + 1
    /\ pc' = "attrs"
    /\ UNCHANGED <<twitter, env, script, run, exc, uncaught, exitStatus, connections,
                   bot, reddit, comments_list, ci, ri, sub_comments,
                   sub_nodes, trained, log, backoffs, outcomes, store, firstRun,
                   args, sub, lim, credentials, steps>>

\* for submission in ...: the generator is exhausted; reddit_training returns.
listing_exhausted ==
    /\ pc = "loop"
    /\ exc = NONE
    /\ MayAnswer
    /\ idx < lim[1] => MayBeExhausted
    /\ pc' = "done"
    /\ UNCHANGED <<twitter, env, script, run, exc, uncaught, exitStatus, connections,
                   bot, reddit, idx, submission, comments_list, ci, ri,
                   sub_comments, sub_nodes, trained, log, backoffs, outcomes,
                   store, firstRun,
                   args, sub, lim, credentials, steps>>

\* for submission in ...: the request for the next batch of the listing
\* fails.  The for statement is outside the try.  (The source holds at most
\* MaxThreads submissions; a request below that bound may fail.)
listing_raises ==
    /\ pc = "loop"
    /\ exc = NONE
    /\ idx < MaxThreads
    /\ idx < lim[1]
    /\ \E kind \in Raisable : MayRaise(kind) /\ exc' = kind
    /\ UNCHANGED <<twitter, env, script, run, pc, uncaught, exitStatus, connections,
                   bot, reddit, idx, submission, comments_list, ci, ri,
                   sub_comments, sub_nodes, trained, log, backoffs, outcomes,
                   store, firstRun,
                   args, sub, lim, credentials, steps>>

\* The loop locals are dead when control is back at the for statement over
\* the listing: each of them is assigned before it is read again (lines 355,
\* 369, 371, 374, 377).  Their storage is cleared there.
ForgetLocals ==
    /\ submission' = 0
    /\ comments_list' = <<>>
    /\ ci' = 0
    /\ ri' = 0
    /\ sub_comments' = <<>>
    /\ sub_nodes' = <<>>
    /\ steps' = <<>>

\* How the processing of the current submission ended.
Outcome(how) == [id |-> submission, how |-> how]

\* An author test that takes every submission to have an author.
HasAuthorAlways(t) == TRUE

\* if submission.author:
HasAuthor(t) == Author(t)

\* The try body up to the author test, for a submission without author:
\* nothing else of the body runs.
submission_deleted ==
    /\ pc = "attrs"
    /\ exc = NONE
    /\ MayAnswer
    /\ ~HasAuthor(submission)
    /\ outcomes' = Append(outcomes, Outcome("deleted"))
    /\ pc' = "loop"
    /\ ForgetLocals
    /\ UNCHANGED <<twitter, env, script, run, exc, uncaught, exitStatus, connections,
                   bot, reddit, idx, trained, log, backoffs, store, firstRun,
                   args, sub, lim, credentials>>

\* The try body up to the author test and the branch the test guards, for
\* a submission that passes it: title, score, id, url, author and
\* submission.author.link_karma are read (an attribute of None is an
\* AttributeError).
submission_attributes ==
    /\ pc = "attrs"
    /\ exc = NONE
    /\ MayAnswer
    /\ HasAuthor(submission)
    /\ IF Author(submission)
       THEN pc' = "expand" /\ exc' = exc
       ELSE pc' = pc /\ exc' = "AttributeError"
    /\ UNCHANGED <<twitter, env, script, run, uncaught, exitStatus, connections,
                   bot, reddit, idx, submission, comments_list, ci, ri,
                   sub_comments, sub_nodes, trained, log, backoffs, outcomes,
                   store, firstRun,
                   args, sub, lim, credentials, steps>>

\* A flattening of the tree that was not expanded first.
ExpansionCallsListOnly == <<"list">>

\* The calls made on submission.comments, in order.
ExpansionCalls == <<"replace_more", "list">>

\* The calls that open the body of the loop over comments_list, in order:
\* the next comment is taken, then sleep(slp).
CommentCalls == <<"comment", "sleep">>

\* submission.comments.replace_more(limit=0)
\* comments_list = submission.comments.list()
expand_comments ==
    /\ pc = "expand"
    /\ exc = NONE
    /\ MayAnswer
    /\ IF Flatten(submission) = <<>>
       THEN /\ pc' = "loop"
            /\ outcomes' = Append(outcomes, Outcome("completed"))
            /\ ForgetLocals
       ELSE /\ pc' = "comment"
            /\ comments_list' = Flatten(submission)
            /\ ci' = 1
            /\ steps' = steps \o ExpansionCalls
            /\ UNCHANGED <<outcomes, submission, ri, sub_comments, sub_nodes>>
    /\ UNCHANGED <<twitter, env, script, run, exc, uncaught, exitStatus, connections,
                   bot, reddit, idx, trained, log, backoffs, store, firstRun,
                   args, sub, lim, credentials>>

\* The comment the loop over comments_list is at.
Comment == comments_list[ci]

\* A start of the loop body that goes on appending to the list it has.
StartSequenceKeeping(old, body) == Append(old, body)

\* sub_comments = []; sub_comments.append(comment.body)
StartSequence(old, body) == <<body>>

\* for comment in comments_list: sleep(slp), the new sub_comments, and the
\* request for comment.replies.
comment_start ==
    /\ pc = "comment"
    /\ exc = NONE
    /\ MayAnswer
    /\ sub_comments' = StartSequence(sub_comments, Body(submission, Comment))
    /\ sub_nodes' = StartSequence(sub_nodes, Comment)
    /\ ri' = 1
    /\ steps' = steps \o CommentCalls
    /\ pc' = IF Replies(submission, Comment) = <<>> THEN "check" ELSE "reply"
    /\ UNCHANGED <<twitter, env, script, run, exc, uncaught, exitStatus, connections,
                   bot, reddit, idx, submission, comments_list, ci, trained,
                   log, backoffs, outcomes, store, firstRun,
                   args, sub, lim, credentials>>

\* for _idx, rep in enumerate(comment.replies): one reply is cleaned and,
\* if it is short enough and not the removed marker, appended.
reply_step ==
    /\ pc = "reply"
    /\ exc = NONE
    /\ MayAnswer
    /\ LET rep == Replies(submission, Comment)[ri]
           reply == CleanReply(Body(submission, rep))
           keep == IF ShortEnough(reply) THEN NotRemoved(reply) ELSE FALSE
       IN  /\ sub_comments' = IF keep THEN Append(sub_comments, reply)
                              ELSE sub_comments
           /\ sub_nodes' = IF keep THEN Append(sub_nodes, rep) ELSE sub_nodes
    /\ ri' = ri + 1
    /\ steps' = Append(steps, "reply")
    /\ pc' = IF ri = Len(Replies(submission, Comment)) THEN "check" ELSE "reply"
    /\ UNCHANGED <<twitter, env, script, run, exc, uncaught, exitStatus, connections,
                   bot, reddit, idx, submission, comments_list, ci, trained,
                   log, backoffs, outcomes, store, firstRun,
                   args, sub, lim, credentials>>

\* The call bot.train(sub_comments), as the sink records it.
TrainingCall ==
    [thread |-> idx, id |-> submission, comment |-> Comment,
     nodes |-> sub_nodes, seq |-> sub_comments]

\* A test that also skips a sequence the bot's database already holds.
TrainDueUnseen == LongEnough(sub_comments) /\ sub_comments \notin store

\* if len(sub_comments) < 5: (skip) else: (train)
TrainDue == LongEnough(sub_comments)

\* The end of the loop body: a sequence of at least 5 is handed to
\* bot.train, which stores it; then the loop over comments_list goes on or
\* ends.
check_and_train ==
    /\ pc = "check"
    /\ exc = NONE
    /\ TrainDue => MayAnswer
    /\ trained' = IF TrainDue THEN Append(trained, TrainingCall) ELSE trained
    /\ store' = IF TrainDue THEN store \cup {sub_comments} ELSE store
    /\ IF ci = Len(comments_list)
       THEN /\ pc' = "loop"
            /\ outcomes' = Append(outcomes, Outcome("completed"))
            /\ ForgetLocals
       ELSE /\ pc' = "comment"
            /\ ci' = ci + 1
            /\ steps' = IF TrainDue THEN Append(steps, "train") ELSE steps
            /\ UNCHANGED <<outcomes, submission, comments_list, ri,
                           sub_comments, sub_nodes>>
    /\ UNCHANGED <<twitter, env, script, run, exc, uncaught, exitStatus, connections,
                   bot, reddit, idx, log, backoffs, firstRun,
                   args, sub, lim, credentials>>

\* bot.train(sub_comments) is called and raises.
train_raises ==
    /\ pc = "check"
    /\ exc = NONE
    /\ TrainDue
    /\ \E kind \in Raisable : MayRaise(kind) /\ exc' = kind
    /\ trained' = Append(trained, TrainingCall)
    /\ steps' = Append(steps, "train")
    /\ UNCHANGED <<twitter, env, script, run, pc, uncaught, exitStatus, connections,
                   bot, reddit, idx, submission, comments_list, ci, ri,
                   sub_comments, sub_nodes, log, backoffs, outcomes, store,
                   firstRun,
                   args, sub, lim, credentials>>

\* A request of the try body (attributes, replace_more, list, comment.body,
\* comment.replies, rep.body) raises.
source_raises ==
    /\ pc \in {"attrs", "expand", "comment", "reply"}
    /\ exc = NONE
    /\ \E kind \in Raisable : MayRaise(kind) /\ exc' = kind
    /\ UNCHANGED <<twitter, env, script, run, pc, uncaught, exitStatus, connections,
                   bot, reddit, idx, submission, comments_list, ci, ri,
                   sub_comments, sub_nodes, trained, log, backoffs, outcomes,
                   store, firstRun,
                   args, sub, lim, credentials, steps>>

\* The except clauses of the try in reddit_training, in order.
ExceptClauses ==
    <<"APIException", "ClientException", "PRAWException", "AssertionError">>

\* A try that has lost its ClientException and PRAWException clauses.
HandlerNarrow(kind) ==
    CASE kind = "APIException" -> 1
      [] kind \in AssertionKinds -> 4
      [] OTHER -> 0

\* A try that has lost its AssertionError clause.
HandlerPrawOnly(kind) ==
    CASE kind = "APIException" -> 1
      [] kind = "ClientException" -> 2
      [] kind = "PRAWException" -> 3
      [] OTHER -> 0

\* The first clause that matches (0: none, the exception propagates).
Handler(kind) ==
    IF \E i \in DOMAIN ExceptClauses : IsInstance(kind, ExceptClauses[i])
    THEN CHOOSE i \in DOMAIN ExceptClauses :
            /\ IsInstance(kind, ExceptClauses[i])
            /\ \A j \in 1..(i - 1) : ~IsInstance(kind, ExceptClauses[j])
    ELSE 0

\* The three clauses for praw exceptions: LOG.error, then the next submission.
except_praw(clause) ==
    /\ pc \in InTry
    /\ exc # NONE
    /\ Handler(exc) = clause
    /\ log' = Append(log, <<"ERROR", ExceptClauses[clause], exc>>)
    /\ outcomes' = Append(outcomes, Outcome(exc))
    /\ exc' = NONE
    /\ pc' = "loop"
    /\ ForgetLocals
    /\ UNCHANGED <<twitter, env, script, run, uncaught, exitStatus, connections, bot,
                   reddit, idx, trained, backoffs, store, firstRun,
                   args, sub, lim, credentials>>

except_APIException == except_praw(1)

except_ClientException == except_praw(2)

except_PRAWException == except_praw(3)

\* except AssertionError: with 429 in the message two warnings are logged
\* and the harvester sleeps 60 seconds; then the next submission.
except_AssertionError ==
    /\ pc \in InTry
    /\ exc # NONE
    /\ Handler(exc) = 4
    /\ IF HasCode429(exc)
       THEN /\ log' = log \o << <<"WARNING", "Exceeding rate limits", exc>>,
                                <<"WARNING", "sleeping for 60 seconds", exc>> >>
            /\ backoffs' = Append(backoffs, BackoffSeconds)
       ELSE UNCHANGED <<log, backoffs>>
    /\ outcomes' = Append(outcomes, Outcome(exc))
    /\ exc' = NONE
    /\ pc' = "loop"
    /\ ForgetLocals
    /\ UNCHANGED <<twitter, env, script, run, uncaught, exitStatus, connections, bot,
                   reddit, idx, trained, store, firstRun,
                   args, sub, lim, credentials>>

\* No clause matches, or the exception is raised outside the try: it leaves
\* reddit_training.
propagate ==
    /\ exc # NONE
    /\ \/ pc \in InTry /\ Handler(exc) = 0
       \/ pc \in {"chat_bot", "get_reddit_envars", "listing", "loop"}
       \/ pc = "praw" /\ ~IsInstance(exc, "AssertionError")
    /\ uncaught' = exc
    /\ exc' = NONE
    /\ pc' = "crashed"
    /\ UNCHANGED <<twitter, env, script, run, exitStatus, connections, bot, reddit,
                   idx, submission, comments_list, ci, ri, sub_comments,
                   sub_nodes, trained, log, backoffs, outcomes, store,
                   firstRun,
                   args, sub, lim, credentials, steps>>

\* reddit_training is run again in a new process, against the same mocked
\* source, after the run before it has ended.  Nothing of the old process is
\* left but the bot's database; what was observed of the last run is set
\* aside for comparison.
rerun ==
    /\ pc \in Terminal
    /\ run < MaxRuns
    /\ run' = run + 1
    /\ firstRun' = trained
    /\ trained' = <<>>
    /\ log' = <<>>
    /\ outcomes' = <<>>
    /\ backoffs' = <<>>
    /\ connections' = {}
    /\ exitStatus' = {}
    /\ uncaught' = NONE
    /\ bot' = "unbound"
    /\ reddit' = "unbound"
    /\ idx' = 0
    /\ pc' = "chat_bot"
    /\ sub' = args.sub
    /\ lim' = args.lim
    /\ credentials' = <<>>
    /\ ForgetLocals
    /\ UNCHANGED <<twitter, env, script, exc, store, args>>

Harvest ==
    \/ chat_bot
    \/ get_reddit_envars
    \/ praw_Reddit
    \/ praw_Reddit_raises
    \/ get_reddit_except
    \/ open_listing
    \/ next_submission
    \/ listing_exhausted
    \/ listing_raises
    \/ submission_deleted
    \/ submission_attributes
    \/ expand_comments
    \/ comment_start
    \/ reply_step
    \/ check_and_train
    \/ train_raises
    \/ source_raises
    \/ except_APIException
    \/ except_ClientException
    \/ except_PRAWException
    \/ except_AssertionError
    \/ propagate

Next == Harvest

Spec == Init /\ [][Next]_vars

\* ------------------------------------------------ runs against a static mock

\* The threads the mocked source lists.
MockPool == {1, 4}

MockListings == UNION {[1..n -> MockPool] : n \in 0..MaxThreads}

\* The requests made for thread t while it is processed: for a deleted
\* submission its attributes only; bot.train only for the comments of t
\* that have enough short replies.
RequestsFor(t) ==
    IF ~Author(t) THEN {<<"attrs", 0, 0>>}
    ELSE {<<"attrs", 0, 0>>, <<"expand", 0, 0>>}
         \cup {<<"comment", c, 0>> : c \in 1..Len(Flatten(t))}
         \cup {<<"check", c, 0>> :
                 c \in {d \in 1..Len(Flatten(t)) :
                          Len(Replies(t, Flatten(t)[d])) >= MinSequenceLength - 1}}
         \cup UNION {{<<"reply", c, r>> :
                        r \in 1..Len(Replies(t, Flatten(t)[c]))} :
                     c \in 1..Len(Flatten(t))}

\* The single failures a mock over listing l can be scripted with: of the
\* construction of the client, of the request for a thread of the listing,
\* or of a request made while a thread is processed.
MockFaults(l) ==
    {[thread |-> 0, at |-> <<"praw", 0, 0>>, kind |-> k] : k \in SourceErrors}
    \cup {[thread |-> n, at |-> <<"loop", 0, 0>>, kind |-> k] :
            n \in 1..Len(l), k \in SourceErrors}
    \cup UNION {{[thread |-> n, at |-> a, kind |-> k] :
                    a \in RequestsFor(l[n]), k \in SourceErrors} :
                n \in 1..Len(l)}

Scripts ==
    UNION {{[mock |-> TRUE, listing |-> l, faults |-> F] :
               F \in {{}} \cup {{f} : f \in MockFaults(l)}} :
           l \in MockListings}

InitRerun ==
    /\ \/ env = FullEnv /\ script \in Scripts
       \/ env \in Envs \ {FullEnv}
          /\ script = [mock |-> TRUE, listing |-> <<>>, faults |-> {}]
    /\ run = 1
    /\ pc = "chat_bot"
    /\ exc = NONE
    /\ uncaught = NONE
    /\ exitStatus = {}
    /\ connections = {}
    /\ bot = "unbound"
    /\ reddit = "unbound"
    /\ idx = 0
    /\ submission = 0
    /\ comments_list = <<>>
    /\ ci = 0
    /\ ri = 0
    /\ sub_comments = <<>>
    /\ sub_nodes = <<>>
    /\ trained = <<>>
    /\ log = <<>>
    /\ backoffs = <<>>
    /\ outcomes = <<>>
    /\ store = {}
    /\ firstRun = <<>>
    /\ args = MainArgs
    /\ sub = args.sub
    /\ lim = args.lim
    /\ credentials = <<>>
    /\ steps = <<>>
    /\ NoStream

NextRerun == Harvest \/ rerun

SpecRerun == InitRerun /\ [][NextRerun]_vars

\* ------------------------------------------------- calls by other callers

\* The arguments a caller can pass: no topic or a topic, and no limit, the
\* limits 0 and 1, or the limit of main.
CallerArgs ==
    [sub : {NONE, "learnpython"}, lim : {NoLimit, <<0>>, <<1>>, <<MainLimit>>}]

\* reddit_training(sub, lim) is called with any of these arguments, the
\* four variables set, against a static mock.
InitLimit ==
    /\ env = FullEnv
    /\ script \in Scripts
    /\ args \in CallerArgs
    /\ sub = args.sub
    /\ lim = args.lim
    /\ run = 1
    /\ pc = "chat_bot"
    /\ exc = NONE
    /\ uncaught = NONE
    /\ exitStatus = {}
    /\ connections = {}
    /\ bot = "unbound"
    /\ reddit = "unbound"
    /\ idx = 0
    /\ submission = 0
    /\ comments_list = <<>>
    /\ ci = 0
    /\ ri = 0
    /\ sub_comments = <<>>
    /\ sub_nodes = <<>>
    /\ trained = <<>>
    /\ log = <<>>
    /\ backoffs = <<>>
    /\ outcomes = <<>>
    /\ store = {}
    /\ firstRun = <<>>
    /\ credentials = <<>>
    /\ steps = <<>>
    /\ NoStream

NextLimit == Harvest

SpecLimit == InitLimit /\ [][NextLimit]_vars

\* ------------------------------------------------------------- progress

\* The threads of the source the harvester is run to its end against.
LivePool == <<1, 3>>

\* As Init, against an unconstrained source that holds the threads of
\* LivePool.
InitLive ==
    /\ env \in Envs
    /\ script = [mock |-> FALSE, listing |-> LivePool, faults |-> {}]
    /\ args = MainArgs
    /\ sub = args.sub
    /\ lim = args.lim
    /\ run = 1
    /\ pc = "chat_bot"
    /\ exc = NONE
    /\ uncaught = NONE
    /\ exitStatus = {}
    /\ connections = {}
    /\ bot = "unbound"
    /\ reddit = "unbound"
    /\ idx = 0
    /\ submission = 0
    /\ comments_list = <<>>
    /\ ci = 0
    /\ ri = 0
    /\ sub_comments = <<>>
    /\ sub_nodes = <<>>
    /\ trained = <<>>
    /\ log = <<>>
    /\ backoffs = <<>>
    /\ outcomes = <<>>
    /\ store = {}
    /\ firstRun = <<>>
    /\ credentials = <<>>
    /\ steps = <<>>
    /\ NoStream

\* The interpreter goes on executing reddit_training while a statement is
\* left to execute: sleeps end, and every request to the source returns or
\* raises.
SpecLive == InitLive /\ [][Next]_vars /\ WF_vars(Next)

\* ------------------------------------------------------- a user interrupt

\* The user interrupts the process (SIGINT): the interpreter raises
\* KeyboardInterrupt at the statement in hand.  It is not an Exception, no
\* except clause of reddit_training or get_reddit names it, and neither
\* function has a finally: it replaces whatever was being handled, unwinds
\* the frame of reddit_training (its locals are gone) and leaves it.
interrupt ==
    /\ pc \notin Terminal
    /\ Handler("KeyboardInterrupt") = 0
    /\ uncaught' = "KeyboardInterrupt"
    /\ exc' = NONE
    /\ pc' = "crashed"
    /\ ForgetLocals
    /\ UNCHANGED <<twitter, env, script, run, exitStatus, connections, bot, reddit,
                   idx, trained, log, backoffs, outcomes, store, firstRun,
                   args, sub, lim, credentials>>

NextInterrupt == Harvest \/ interrupt

SpecInterrupt == Init /\ [][NextInterrupt]_vars

\* ------------------------------------- bot.py: its own reddit_training

\* lim = 9 in reddit_training of bot.py
BotLimit == 9

\* reddit_training() of bot.py takes no arguments.
BotArgs == [sub |-> NONE, lim |-> NoLimit]

\* The state at a call of reddit_training() of bot.py against a static
\* mock, with the four variables set, or with some unset.
InitBot ==
    /\ \/ env = FullEnv /\ script \in Scripts
       \/ env \in Envs \ {FullEnv}
          /\ script = [mock |-> TRUE, listing |-> <<>>, faults |-> {}]
    /\ args = BotArgs
    /\ sub = NONE
    /\ lim = NoLimit
    /\ run = 1
    /\ pc = "chat_bot"
    /\ exc = NONE
    /\ uncaught = NONE
    /\ exitStatus = {}
    /\ connections = {}
    /\ bot = "unbound"
    /\ reddit = "unbound"
    /\ idx = 0
    /\ submission = 0
    /\ comments_list = <<>>
    /\ ci = 0
    /\ ri = 0
    /\ sub_comments = <<>>
    /\ sub_nodes = <<>>
    /\ trained = <<>>
    /\ log = <<>>
    /\ backoffs = <<>>
    /\ outcomes = <<>>
    /\ store = {}
    /\ firstRun = <<>>
    /\ credentials = <<>>
    /\ steps = <<>>
    /\ NoStream

\* bot = chat_bot() of bot.py: ChatBot('Useless Bot', ...) on the
\* MongoDatabaseAdapter.
bot_chat_bot ==
    /\ pc = "chat_bot"
    /\ exc = NONE
    /\ bot' = "Useless Bot"
    /\ connections' = connections \cup {"mongo"}
    /\ pc' = "get_reddit_envars"
    /\ UNCHANGED <<twitter, env, script, run, exc, uncaught, exitStatus, reddit, idx,
                   submission, comments_list, ci, ri, sub_comments,
                   sub_nodes, trained, log, backoffs, outcomes, store,
                   firstRun, args, sub, lim, credentials, steps>>

\* get_reddit_envars() of bot.py.
bot_get_reddit_envars ==
    /\ pc = "get_reddit_envars"
    /\ exc = NONE
    /\ IF FirstMissing(env) # 0
       THEN /\ log' = Append(log, <<"ERROR", "export", RedditVars[FirstMissing(env)]>>)
            /\ exitStatus' = {1}
            /\ pc' = "exit"
            /\ UNCHANGED credentials
       ELSE /\ pc' = "praw"
            /\ credentials' = env
            /\ UNCHANGED <<log, exitStatus>>
    /\ UNCHANGED <<twitter, env, script, run, exc, uncaught, connections, bot, reddit,
                   idx, submission, comments_list, ci, ri, sub_comments,
                   sub_nodes, trained, backoffs, outcomes, store, firstRun,
                   args, sub, lim, steps>>

\* get_reddit() of bot.py: reddit = praw.Reddit(...); return reddit.
bot_praw_Reddit ==
    /\ pc = "praw"
    /\ exc = NONE
    /\ MayAnswer
    /\ reddit' = "client"
    /\ connections' = connections \cup {"reddit"}
    /\ pc' = "listing"
    /\ UNCHANGED <<twitter, env, script, run, exc, uncaught, exitStatus, bot, idx,
                   submission, comments_list, ci, ri, sub_comments,
                   sub_nodes, trained, log, backoffs, outcomes, store,
                   firstRun, args, sub, lim, credentials, steps>>

\* praw.Reddit(...) raises; get_reddit of bot.py has no try.
bot_praw_Reddit_raises ==
    /\ pc = "praw"
    /\ exc = NONE
    /\ \E kind \in Raisable : MayRaise(kind) /\ exc' = kind
    /\ connections' = connections \cup {"reddit"}
    /\ UNCHANGED <<twitter, env, script, run, pc, uncaught, exitStatus, bot, reddit,
                   idx, submission, comments_list, ci, ri, sub_comments,
                   sub_nodes, trained, log, backoffs, outcomes, store,
                   firstRun, args, sub, lim, credentials, steps>>

\* lim = 9; sub = 'all'; slp = 3; reddit.subreddit(sub).hot(limit=lim)
bot_open_listing ==
    /\ pc = "listing"
    /\ exc = NONE
    /\ sub' = "all"
    /\ lim' = <<BotLimit>>
    /\ idx' = 0
    /\ pc' = "loop"
    /\ UNCHANGED <<twitter, env, script, run, exc, uncaught, exitStatus, connections,
                   bot, reddit, submission, comments_list, ci, ri,
                   sub_comments, sub_nodes, trained, log, backoffs, outcomes,
                   store, firstRun, args, credentials, steps>>

\* for submission in ...: the next submission, then sleep(slp) before
\* the try.
bot_next_submission ==
    /\ pc = "loop"
    /\ exc = NONE
    /\ idx < MaxThreads
    /\ idx < lim[1]
    /\ MayAnswer
    /\ \E t \in ThreadIds : MayYield(t) /\ submission' = t
    /\ idx' = idx + 1
    /\ steps' = Append(steps, "sleep")
    /\ pc' = "attrs"
    /\ UNCHANGED <<twitter, env, script, run, exc, uncaught, exitStatus, connections,
                   bot, reddit, comments_list, ci, ri, sub_comments,
                   sub_nodes, trained, log, backoffs, outcomes, store,
                   firstRun, args, sub, lim, credentials>>

\* for submission in ...: the generator is exhausted.
bot_listing_exhausted ==
    /\ pc = "loop"
    /\ exc = NONE
    /\ MayAnswer
    /\ idx < lim[1] => MayBeExhausted
    /\ pc' = "done"
    /\ UNCHANGED <<twitter, env, script, run, exc, uncaught, exitStatus, connections,
                   bot, reddit, idx, submission, comments_list, ci, ri,
                   sub_comments, sub_nodes, trained, log, backoffs, outcomes,
                   store, firstRun, args, sub, lim, credentials, steps>>

\* for submission in ...: the request for the listing fails, outside the
\* try.
bot_listing_raises ==
    /\ pc = "loop"
    /\ exc = NONE
    /\ idx < MaxThreads
    /\ idx < lim[1]
    /\ \E kind \in Raisable : MayRaise(kind) /\ exc' = kind
    /\ UNCHANGED <<twitter, env, script, run, pc, uncaught, exitStatus, connections,
                   bot, reddit, idx, submission, comments_list, ci, ri,
                   sub_comments, sub_nodes, trained, log, backoffs, outcomes,
                   store, firstRun, args, sub, lim, credentials, steps>>

\* title, score, id, url and author are logged, then
\* submission.author.link_karma is read with no test of the author: for a
\* submission without author that is an attribute of None.
bot_submission_attributes ==
    /\ pc = "attrs"
    /\ exc = NONE
    /\ MayAnswer
    /\ IF Author(submission)
       THEN pc' = "expand" /\ exc' = exc
       ELSE pc' = pc /\ exc' = "AttributeError"
    /\ UNCHANGED <<twitter, env, script, run, uncaught, exitStatus, connections, bot,
                   reddit, idx, submission, comments_list, ci, ri,
                   sub_comments, sub_nodes, trained, log, backoffs, outcomes,
                   store, firstRun, args, sub, lim, credentials, steps>>

\* submission.comments.replace_more(limit=0)
\* comments_list = submission.comments.list()
bot_expand_comments ==
    /\ pc = "expand"
    /\ exc = NONE
    /\ MayAnswer
    /\ IF Flatten(submission) = <<>>
       THEN /\ pc' = "loop"
            /\ outcomes' = Append(outcomes, Outcome("completed"))
            /\ ForgetLocals
       ELSE /\ pc' = "comment"
            /\ comments_list' = Flatten(submission)
            /\ ci' = 1
            /\ steps' = steps \o <<"replace_more", "list">>
            /\ UNCHANGED <<outcomes, submission, ri, sub_comments, sub_nodes>>
    /\ UNCHANGED <<twitter, env, script, run, exc, uncaught, exitStatus, connections,
                   bot, reddit, idx, trained, log, backoffs, store, firstRun,
                   args, sub, lim, credentials>>

\* sub_comments = get_sub_comments(comment): the body of the comment and
\* the body of every direct reply, as they are.
bot_get_sub_comments ==
    /\ pc = "comment"
    /\ exc = NONE
    /\ MayAnswer
    /\ LET reps == Replies(submission, Comment)
       IN  /\ sub_comments' = <<Body(submission, Comment)>>
                  \o [i \in 1..Len(reps) |-> Body(submission, reps[i])]
           /\ sub_nodes' = <<Comment>> \o reps
    /\ steps' = Append(steps, "comment")
    /\ pc' = "check"
    /\ UNCHANGED <<twitter, env, script, run, exc, uncaught, exitStatus, connections,
                   bot, reddit, idx, submission, comments_list, ci, ri,
                   trained, log, backoffs, outcomes, store, firstRun, args,
                   sub, lim, credentials>>

\* bot.train(sub_comments) for every comment; then the loop over
\* comments_list goes on or ends.
bot_train ==
    /\ pc = "check"
    /\ exc = NONE
    /\ MayAnswer
    /\ trained' = Append(trained, TrainingCall)
    /\ store' = store \cup {sub_comments}
    /\ IF ci = Len(comments_list)
       THEN /\ pc' = "loop"
            /\ outcomes' = Append(outcomes, Outcome("completed"))
            /\ ForgetLocals
       ELSE /\ pc' = "comment"
            /\ ci' = ci + 1
            /\ steps' = Append(steps, "train")
            /\ UNCHANGED <<outcomes, submission, comments_list, ri,
                           sub_comments, sub_nodes>>
    /\ UNCHANGED <<twitter, env, script, run, exc, uncaught, exitStatus, connections,
                   bot, reddit, idx, log, backoffs, firstRun, args, sub, lim,
                   credentials>>

\* bot.train(sub_comments) is called and raises.
bot_train_raises ==
    /\ pc = "check"
    /\ exc = NONE
    /\ \E kind \in Raisable : MayRaise(kind) /\ exc' = kind
    /\ trained' = Append(trained, TrainingCall)
    /\ steps' = Append(steps, "train")
    /\ UNCHANGED <<twitter, env, script, run, pc, uncaught, exitStatus, connections,
                   bot, reddit, idx, submission, comments_list, ci, ri,
                   sub_comments, sub_nodes, log, backoffs, outcomes, store,
                   firstRun, args, sub, lim, credentials>>

\* A request of the try body of bot.py raises.
bot_source_raises ==
    /\ pc \in {"attrs", "expand", "comment"}
    /\ exc = NONE
    /\ \E kind \in Raisable : MayRaise(kind) /\ exc' = kind
    /\ UNCHANGED <<twitter, env, script, run, pc, uncaught, exitStatus, connections,
                   bot, reddit, idx, submission, comments_list, ci, ri,
                   sub_comments, sub_nodes, trained, log, backoffs, outcomes,
                   store, firstRun, args, sub, lim, credentials, steps>>

\* The except clauses of the try in reddit_training of bot.py, in order.
BotExceptClauses ==
    <<"APIException", "ClientException", "PRAWException", "AssertionError">>

\* The first clause of bot.py's try that matches (0: none).
BotHandler(kind) ==
    IF \E i \in DOMAIN BotExceptClauses : IsInstance(kind, BotExceptClauses[i])
    THEN CHOOSE i \in DOMAIN BotExceptClauses :
            /\ IsInstance(kind, BotExceptClauses[i])
            /\ \A j \in 1..(i - 1) : ~IsInstance(kind, BotExceptClauses[j])
    ELSE 0

\* The three clauses of bot.py for praw exceptions: LOG.error, then the
\* next submission.
bot_except_praw(clause) ==
    /\ pc \in InTry
    /\ exc # NONE
    /\ BotHandler(exc) = clause
    /\ log' = Append(log, <<"ERROR", BotExceptClauses[clause], exc>>)
    /\ outcomes' = Append(outcomes, Outcome(exc))
    /\ exc' = NONE
    /\ pc' = "loop"
    /\ ForgetLocals
    /\ UNCHANGED <<twitter, env, script, run, uncaught, exitStatus, connections, bot,
                   reddit, idx, trained, backoffs, store, firstRun, args,
                   sub, lim, credentials>>

bot_except_APIException == bot_except_praw(1)

bot_except_ClientException == bot_except_praw(2)

bot_except_PRAWException == bot_except_praw(3)

\* except AssertionError of bot.py: with 429 in the message two warnings
\* and sleep(60); then the next submission.
bot_except_AssertionError ==
    /\ pc \in InTry
    /\ exc # NONE
    /\ BotHandler(exc) = 4
    /\ IF HasCode429(exc)
       THEN /\ log' = log \o << <<"WARNING", "Exceeding rate limits", exc>>,
                                <<"WARNING", "sleeping for 60 seconds", exc>> >>
            /\ backoffs' = Append(backoffs, BackoffSeconds)
       ELSE UNCHANGED <<log, backoffs>>
    /\ outcomes' = Append(outcomes, Outcome(exc))
    /\ exc' = NONE
    /\ pc' = "loop"
    /\ ForgetLocals
    /\ UNCHANGED <<twitter, env, script, run, uncaught, exitStatus, connections, bot,
                   reddit, idx, trained, store, firstRun, args, sub, lim,
                   credentials>>

\* No clause of bot.py matches, or the exception is raised outside the
\* try: it leaves reddit_training.
bot_propagate ==
    /\ exc # NONE
    /\ \/ pc \in InTry /\ BotHandler(exc) = 0
       \/ pc \in {"chat_bot", "get_reddit_envars", "praw", "listing", "loop"}
    /\ uncaught' = exc
    /\ exc' = NONE
    /\ pc' = "crashed"
    /\ UNCHANGED <<twitter, env, script, run, exitStatus, connections, bot, reddit,
                   idx, submission, comments_list, ci, ri, sub_comments,
                   sub_nodes, trained, log, backoffs, outcomes, store,
                   firstRun, args, sub, lim, credentials, steps>>

NextBot ==
    \/ bot_chat_bot
    \/ bot_get_reddit_envars
    \/ bot_praw_Reddit
    \/ bot_praw_Reddit_raises
    \/ bot_open_listing
    \/ bot_next_submission
    \/ bot_listing_exhausted
    \/ bot_listing_raises
    \/ bot_submission_attributes
    \/ bot_expand_comments
    \/ bot_get_sub_comments
    \/ bot_train
    \/ bot_train_raises
    \/ bot_source_raises
    \/ bot_except_APIException
    \/ bot_except_ClientException
    \/ bot_except_PRAWException
    \/ bot_except_AssertionError
    \/ bot_propagate

SpecBot == InitBot /\ [][NextBot]_vars

\* ------------------------------------------- the credential functions

\* One credential function: the variables are tested in order with
\* `os.environ.get(..) is None`; at the first unset one LOG.error names it
\* and sys.exit(1) follows; with none unset the tuple is returned.
get_envars(fn, names) ==
    /\ pc = fn
    /\ exc = NONE
    /\ Len(env) = Len(names)
    /\ IF FirstMissing(env) # 0
       THEN /\ log' = Append(log, <<"ERROR", "export", names[FirstMissing(env)]>>)
            /\ exitStatus' = {1}
            /\ pc' = "exit"
            /\ UNCHANGED credentials
       ELSE /\ pc' = "returned"
            /\ credentials' = env
            /\ UNCHANGED <<log, exitStatus>>
    /\ UNCHANGED <<twitter, env, script, run, exc, uncaught, connections, bot, reddit,
                   idx, submission, comments_list, ci, ri, sub_comments,
                   sub_nodes, trained, backoffs, outcomes, store, firstRun,
                   args, sub, lim, steps>>

get_gitter_envars == get_envars("get_gitter_envars", GitterVars)

get_hipchat_envars == get_envars("get_hipchat_envars", HipchatVars)

get_twitter_envars == get_envars("get_twitter_envars", TwitterVars)

\* The copies of the three functions in bot.py.
bot_get_gitter_envars == get_envars("get_gitter_envars", GitterVars)

bot_get_hipchat_envars == get_envars("get_hipchat_envars", HipchatVars)

bot_get_twitter_envars == get_envars("get_twitter_envars", TwitterVars)

\* The function called and the variables it reads.
EnvarsCalls ==
    { <<"get_gitter_envars", Len(GitterVars)>>,
      <<"get_hipchat_envars", Len(HipchatVars)>>,
      <<"get_twitter_envars", Len(TwitterVars)>>,
      <<"get_reddit_envars", Len(RedditVars)>> }

\* A call of one credential function in some environment: each variable
\* unset, set to the empty string, or set to some text.
InitEnvars ==
    /\ \E c \in EnvarsCalls :
          /\ pc = c[1]
          /\ env \in [1..c[2] -> EnvValues]
    /\ script = [mock |-> TRUE, listing |-> <<>>, faults |-> {}]
    /\ args = MainArgs
    /\ sub = args.sub
    /\ lim = args.lim
    /\ run = 1
    /\ exc = NONE
    /\ uncaught = NONE
    /\ exitStatus = {}
    /\ connections = {}
    /\ bot = "unbound"
    /\ reddit = "unbound"
    /\ idx = 0
    /\ submission = 0
    /\ comments_list = <<>>
    /\ ci = 0
    /\ ri = 0
    /\ sub_comments = <<>>
    /\ sub_nodes = <<>>
    /\ trained = <<>>
    /\ log = <<>>
    /\ backoffs = <<>>
    /\ outcomes = <<>>
    /\ store = {}
    /\ firstRun = <<>>
    /\ credentials = <<>>
    /\ steps = <<>>
    /\ NoStream

NextEnvars ==
    \/ get_gitter_envars
    \/ get_hipchat_envars
    \/ get_twitter_envars
    \/ get_reddit_envars
    \/ bot_get_gitter_envars
    \/ bot_get_hipchat_envars
    \/ bot_get_twitter_envars
    \/ bot_get_reddit_envars

SpecEnvars == InitEnvars /\ [][NextEnvars]_vars

\* ------------------------------------- failures told apart by message

\* The failures a mock can be scripted with when messages matter.
MessageErrors == SourceErrors \cup AssertionVariants \cup PrawVariants

MessageFaults(l) ==
    {[f EXCEPT !.kind = k] : f \in MockFaults(l), k \in MessageErrors}

MessageScripts ==
    UNION {{[mock |-> TRUE, listing |-> l, faults |-> F] :
               F \in {{}} \cup {{f} : f \in MessageFaults(l)}} :
           l \in MockListings}

\* A call of reddit_training, of edward.py as main calls it or of bot.py,
\* against a static mock that fails one request with one of the
\* failures above.
InitRateLimit ==
    /\ env = FullEnv
    /\ script \in MessageScripts
    /\ args \in {MainArgs, BotArgs}
    /\ sub = args.sub
    /\ lim = args.lim
    /\ run = 1
    /\ pc = "chat_bot"
    /\ exc = NONE
    /\ uncaught = NONE
    /\ exitStatus = {}
    /\ connections = {}
    /\ bot = "unbound"
    /\ reddit = "unbound"
    /\ idx = 0
    /\ submission = 0
    /\ comments_list = <<>>
    /\ ci = 0
    /\ ri = 0
    /\ sub_comments = <<>>
    /\ sub_nodes = <<>>
    /\ trained = <<>>
    /\ log = <<>>
    /\ backoffs = <<>>
    /\ outcomes = <<>>
    /\ store = {}
    /\ firstRun = <<>>
    /\ credentials = <<>>
    /\ steps = <<>>
    /\ NoStream

\* The steps of the function that was called.
NextRateLimit ==
    \/ args = MainArgs /\ Harvest
    \/ args = BotArgs /\ NextBot

SpecRateLimit == InitRateLimit /\ [][NextRateLimit]_vars

\* ---------------------------------- twitter_bot: BotStreamListener

\* How many events the stream delivers.
MaxEvents == 2

\* The id of the authenticated account, api.me().id, and the id of
\* another account.
MeId == 7
FriendId == 8

\* The data of a stream event, by what on_data reads of it: the top-level
\* key of the JSON object, the id of the sender (of the author, for a
\* status) and the text.  A text can itself be the word direct_message.
Events ==
    [key : {"direct_message", "status"},
     sender_id : {MeId, FriendId},
     text : {"hello", "direct_message"}]

\* 'direct_message' in data: the word stands somewhere in the raw data,
\* as a key or inside a text.
InData(e) == "direct_message" \in {e.key, e.text}

\* parsed["direct_message"] finds the key.
HasKey(e) == e.key = "direct_message"

\* parsed["direct_message"]["sender_screen_name"]
ScreenName(id) == IF id = MeId THEN "bot" ELSE "friend"

\* A sender test that lets every sender through.
FromAnyone(e) == TRUE

\* if int(api.me().id) != int(sender_id):
FromOther(e) == MeId # e.sender_id

\* statement, response = self.bot.generate_response(input_statement, ...)
Response(text) == <<"re", text>>

\* The positions inside one call of on_data.
InOnData == {"on_data", "me", "send", "learn", "update"}

\* The listener is constructed and stream.userstream() is running: the
\* four TWITTER_* variables were set, the bot and the session exist.
InitTwitter ==
    /\ env = [v \in 1..Len(TwitterVars) |-> "x"]
    /\ credentials = env
    /\ script = Unscripted
    /\ args = BotArgs
    /\ sub = NONE
    /\ lim = NoLimit
    /\ run = 1
    /\ pc = "listening"
    /\ exc = NONE
    /\ uncaught = NONE
    /\ exitStatus = {}
    /\ connections = {"mongo", "twitter"}
    /\ bot = "Default Bot"
    /\ reddit = "unbound"
    /\ idx = 0
    /\ submission = 0
    /\ comments_list = <<>>
    /\ ci = 0
    /\ ri = 0
    /\ sub_comments = <<>>
    /\ sub_nodes = <<>>
    /\ trained = <<>>
    /\ log = <<>>
    /\ backoffs = <<>>
    /\ outcomes = <<>>
    /\ store = {}
    /\ firstRun = <<>>
    /\ steps = <<>>
    /\ NoStream

\* The stream hands the next event to on_data: any event, among them the
\* direct messages the account itself has sent.
stream_event ==
    /\ pc = "listening"
    /\ exc = NONE
    /\ Len(delivered) < MaxEvents
    /\ \E e \in Events :
          /\ event' = <<e>>
          /\ delivered' = Append(delivered, e)
    /\ pc' = "on_data"
    /\ UNCHANGED <<sent, learned, session, env, script, run, exc, uncaught,
                   exitStatus, connections, bot, reddit, idx, submission,
                   comments_list, ci, ri, sub_comments, sub_nodes, trained,
                   log, backoffs, outcomes, store, firstRun, args, sub, lim,
                   credentials, steps>>

\* if 'direct_message' in data: is false; return True
on_data_skip ==
    /\ pc = "on_data"
    /\ exc = NONE
    /\ ~InData(event[1])
    /\ event' = <<>>
    /\ pc' = "listening"
    /\ UNCHANGED <<delivered, sent, learned, session, env, script, run, exc,
                   uncaught, exitStatus, connections, bot, reddit, idx,
                   submission, comments_list, ci, ri, sub_comments,
                   sub_nodes, trained, log, backoffs, outcomes, store,
                   firstRun, args, sub, lim, credentials, steps>>

\* if 'direct_message' in data: is true; json.loads(data), then the reads
\* of parsed["direct_message"], which fail when the object has no such key.
on_data_parse ==
    /\ pc = "on_data"
    /\ exc = NONE
    /\ InData(event[1])
    /\ IF HasKey(event[1])
       THEN pc' = "me" /\ exc' = exc
       ELSE pc' = pc /\ exc' = "KeyError"
    /\ UNCHANGED <<event, delivered, sent, learned, session, env, script,
                   run, uncaught, exitStatus, connections, bot, reddit, idx,
                   submission, comments_list, ci, ri, sub_comments,
                   sub_nodes, trained, log, backoffs, outcomes, store,
                   firstRun, args, sub, lim, credentials, steps>>

\* if int(api.me().id) != int(sender_id): is false; return True
on_data_own ==
    /\ pc = "me"
    /\ exc = NONE
    /\ ~FromOther(event[1])
    /\ event' = <<>>
    /\ pc' = "listening"
    /\ UNCHANGED <<delivered, sent, learned, session, env, script, run, exc,
                   uncaught, exitStatus, connections, bot, reddit, idx,
                   submission, comments_list, ci, ri, sub_comments,
                   sub_nodes, trained, log, backoffs, outcomes, store,
                   firstRun, args, sub, lim, credentials, steps>>

\* if int(api.me().id) != int(sender_id): is true;
\* process_input_statement and generate_response
on_data_respond ==
    /\ pc = "me"
    /\ exc = NONE
    /\ FromOther(event[1])
    /\ steps' = Append(steps, "generate_response")
    /\ pc' = "send"
    /\ UNCHANGED <<event, delivered, sent, learned, session, env, script,
                   run, exc, uncaught, exitStatus, connections, bot, reddit,
                   idx, submission, comments_list, ci, ri, sub_comments,
                   sub_nodes, trained, log, backoffs, outcomes, store,
                   firstRun, args, sub, lim, credentials>>

\* api.send_direct_message(sender_name, text=response)
send_direct_message ==
    /\ pc = "send"
    /\ exc = NONE
    /\ sent' = Append(sent, [to |-> ScreenName(event[1].sender_id),
                             text |-> Response(event[1].text)])
    /\ pc' = "learn"
    /\ UNCHANGED <<event, delivered, learned, session, env, script, run, exc,
                   uncaught, exitStatus, connections, bot, reddit, idx,
                   submission, comments_list, ci, ri, sub_comments,
                   sub_nodes, trained, log, backoffs, outcomes, store,
                   firstRun, args, sub, lim, credentials, steps>>

\* self.bot.learn_response(response, input_statement)
learn_response ==
    /\ pc = "learn"
    /\ exc = NONE
    /\ learned' = Append(learned, [response |-> Response(event[1].text),
                                   input |-> event[1].text])
    /\ pc' = "update"
    /\ UNCHANGED <<event, delivered, sent, session, env, script, run, exc,
                   uncaught, exitStatus, connections, bot, reddit, idx,
                   submission, comments_list, ci, ri, sub_comments,
                   sub_nodes, trained, log, backoffs, outcomes, store,
                   firstRun, args, sub, lim, credentials, steps>>

\* self.bot.conversation_sessions.update(self.session_id, statement);
\* return True
session_update ==
    /\ pc = "update"
    /\ exc = NONE
    /\ session' = Append(session, event[1].text)
    /\ event' = <<>>
    /\ steps' = <<>>
    /\ pc' = "listening"
    /\ UNCHANGED <<delivered, sent, learned, env, script, run, exc, uncaught,
                   exitStatus, connections, bot, reddit, idx, submission,
                   comments_list, ci, ri, sub_comments, sub_nodes, trained,
                   log, backoffs, outcomes, store, firstRun, args, sub, lim,
                   credentials>>

\* api.me() or api.send_direct_message raises.
api_raises ==
    /\ pc \in {"me", "send"}
    /\ exc = NONE
    /\ exc' = "TweepError"
    /\ UNCHANGED <<event, delivered, sent, learned, session, env, script,
                   run, pc, uncaught, exitStatus, connections, bot, reddit,
                   idx, submission, comments_list, ci, ri, sub_comments,
                   sub_nodes, trained, log, backoffs, outcomes, store,
                   firstRun, args, sub, lim, credentials, steps>>

\* on_data has no try: the exception leaves it and stream.userstream(),
\* and twitter_bot logs it at "except BaseException".
twitter_bot_except ==
    /\ pc \in InOnData
    /\ exc # NONE
    /\ log' = Append(log, <<"ERROR", "Twitter Bot Error", exc>>)
    /\ exc' = NONE
    /\ event' = <<>>
    /\ steps' = <<>>
    /\ pc' = "stopped"
    /\ UNCHANGED <<delivered, sent, learned, session, env, script, run,
                   uncaught, exitStatus, connections, bot, reddit, idx,
                   submission, comments_list, ci, ri, sub_comments,
                   sub_nodes, trained, backoffs, outcomes, store, firstRun,
                   args, sub, lim, credentials>>

NextTwitter ==
    \/ stream_event
    \/ on_data_skip
    \/ on_data_parse
    \/ on_data_own
    \/ on_data_respond
    \/ send_direct_message
    \/ learn_response
    \/ session_update
    \/ api_raises
    \/ twitter_bot_except

SpecTwitter == InitTwitter /\ [][NextTwitter]_vars

\* ------------------------------------------------------------- properties

Range(seq) == {seq[i] : i \in DOMAIN seq}

\* The filter as the specification words it: shorter than max_reply_length
\* and not a rejected marker.
PassesFilter(text) == Len(text) < MaxReplyLength /\ text # RemovedMarker

\* The cleaned body of every comment of every thread.
CleanedTable ==
    [t \in ThreadIds |-> [n \in Nodes(t) |-> CleanReply(Body(t, n))]]

Cleaned(t, n) == CleanedTable[t][n]

\* The number of direct replies of comment c of thread t that pass the
\* filter once cleaned.
AcceptedTable ==
    [t \in ThreadIds |->
        [c \in Nodes(t) |->
            Cardinality({i \in DOMAIN Replies(t, c) :
                            PassesFilter(Cleaned(t, Replies(t, c)[i]))})]]

AcceptedCount(t, c) == AcceptedTable[t][c]

\* The comments of the flattened list of every thread.
ListedTable ==
    [t \in ThreadIds |-> {Flatten(t)[i] : i \in DOMAIN Flatten(t)}]

Listed(t) == ListedTable[t]

\* The number of calls bot.train received for comment c of the k-th
\* submission of the run.
Calls(k, c) ==
    Cardinality({j \in DOMAIN trained :
                    trained[j].thread = k /\ trained[j].comment = c})

\* What the sink is owed for a comment: one call if it has at least
\* min_sequence_length - 1 accepted replies, none otherwise.
Owed(t, c) == IF AcceptedCount(t, c) >= MinSequenceLength - 1 THEN 1 ELSE 0

IsReply(t, n) == ThreadTable[t].parent[n] # 0

\* C1: every sequence handed to bot.train starts with the body of one
\* comment of the flattened list of its thread, and each later element is
\* the cleaned body of a direct reply of that comment that passed the filter;
\* it holds no more elements than that comment and its replies give.
C1_SequenceFromOneComment ==
    \A j \in DOMAIN trained :
        LET e == trained[j] IN
        /\ e.comment \in Listed(e.id)
        /\ e.seq[1] = Body(e.id, e.comment)
        /\ Len(e.seq) <= 1 + Len(Replies(e.id, e.comment))
        /\ \A i \in 2..Len(e.seq) :
              \E r \in Range(Replies(e.id, e.comment)) :
                  /\ e.seq[i] = Cleaned(e.id, r)
                  /\ PassesFilter(e.seq[i])

\* C1 witness: a sequence was handed over in which a reply was cleaned.
C1_Witness ==
    \E j \in DOMAIN trained :
        \E i \in 2..Len(trained[j].seq) :
            trained[j].seq[i] # Body(trained[j].id, trained[j].nodes[i])

\* C2: no sequence shorter than 5 is handed to bot.train; a comment with
\* fewer than 4 accepted replies gets no call, and in a thread processed
\* without error a comment with at least 4 gets exactly one.
C2_MinimumLength ==
    /\ \A j \in DOMAIN trained :
          /\ Len(trained[j].seq) >= MinSequenceLength
          /\ AcceptedCount(trained[j].id, trained[j].comment)
                >= MinSequenceLength - 1
          /\ Calls(trained[j].thread, trained[j].comment) = 1
    /\ pc \in {"comment", "reply", "check"} =>
          \A j \in 1..(ci - 1) :
              Calls(idx, comments_list[j]) = Owed(submission, comments_list[j])
    /\ \A k \in DOMAIN outcomes :
          outcomes[k].how = "completed" =>
              \A c \in Listed(outcomes[k].id) :
                  Calls(k, c) = Owed(outcomes[k].id, c)

\* C2 witness: a thread was processed to its end that has a comment with at
\* least 4 accepted replies and a comment with fewer.
C2_Witness ==
    \E k \in DOMAIN outcomes :
        /\ outcomes[k].how = "completed"
        /\ \E c, d \in Listed(outcomes[k].id) :
              /\ Owed(outcomes[k].id, c) = 1 /\ Calls(k, c) = 1
              /\ Owed(outcomes[k].id, d) = 0 /\ Calls(k, d) = 0

\* C3 as claimed: a reply whose cleaned length is >= 80 is at no position of
\* any sequence handed to bot.train.
C3_LongReplyNowhere ==
    \A j \in DOMAIN trained :
        \A i \in DOMAIN trained[j].seq :
            LET n == trained[j].nodes[i] IN
            IsReply(trained[j].id, n) =>
                Len(Cleaned(trained[j].id, n)) < MaxReplyLength

\* C3 as amended: a reply whose cleaned length is >= 80 is at no position
\* after the first of any sequence handed to bot.train.
C3_LongReplyNotAppended ==
    \A j \in DOMAIN trained :
        \A i \in 2..Len(trained[j].seq) :
            /\ Len(trained[j].seq[i]) < MaxReplyLength
            /\ Len(Cleaned(trained[j].id, trained[j].nodes[i]))
                  < MaxReplyLength

\* C3 witness: a sequence was handed over for a comment one of whose replies
\* is 80 long once cleaned.
C3_Witness ==
    \E j \in DOMAIN trained :
        \E r \in Range(Replies(trained[j].id, trained[j].comment)) :
            Len(Cleaned(trained[j].id, r)) >= MaxReplyLength

\* C4 as claimed: a reply whose cleaned text is '[removed]' is at no position
\* of any sequence handed to bot.train.
C4_RemovedReplyNowhere ==
    \A j \in DOMAIN trained :
        \A i \in DOMAIN trained[j].seq :
            LET n == trained[j].nodes[i] IN
            IsReply(trained[j].id, n) =>
                Cleaned(trained[j].id, n) # RemovedMarker

\* C4 as amended: a reply whose cleaned text is '[removed]' is at no position
\* after the first of any sequence handed to bot.train.
C4_RemovedReplyNotAppended ==
    \A j \in DOMAIN trained :
        \A i \in 2..Len(trained[j].seq) :
            /\ trained[j].seq[i] # RemovedMarker
            /\ Cleaned(trained[j].id, trained[j].nodes[i])
                  # RemovedMarker

\* C4 witness: a sequence was handed over for a comment that has a reply
\* which is '[removed]' only once cleaned.
C4_Witness ==
    \E j \in DOMAIN trained :
        \E r \in Range(Replies(trained[j].id, trained[j].comment)) :
            /\ Cleaned(trained[j].id, r) = RemovedMarker
            /\ Body(trained[j].id, r) # RemovedMarker

\* C5: a thread without author hands nothing to bot.train and raises no
\* error of its own (no attribute of the absent author is read); the step
\* taken on it leads back to the for statement, or is a failure of the
\* source that the handlers take there.
C5_DeletedThreadSkipped ==
    /\ [](/\ \A j \in DOMAIN trained : Author(trained[j].id)
          /\ pc \in {"expand", "comment", "reply", "check"} => Author(submission)
          /\ exc # "AttributeError"
          /\ uncaught # "AttributeError")
    /\ [][(pc = "attrs" /\ exc = NONE /\ ~Author(submission)) =>
             /\ trained' = trained
             /\ uncaught' = uncaught
             /\ \/ pc' = "loop" /\ exc' = NONE /\ idx' = idx
                \/ pc' = pc /\ exc' \in SourceErrors]_vars

\* C5 witness: a deleted thread was skipped and the thread after it was
\* processed to its end and trained on.
C5_Witness ==
    \E k \in DOMAIN outcomes :
        /\ outcomes[k].how = "deleted"
        /\ k + 1 \in DOMAIN outcomes
        /\ outcomes[k + 1].how = "completed"
        /\ \E j \in DOMAIN trained : trained[j].thread = k + 1

\* C6: a praw exception in flight inside the try is caught by the next step:
\* it is logged as an error, nothing leaves reddit_training, and control is
\* back at the for statement with the listing where it was.
C6_PrawErrorsAbsorbed ==
    [][(exc \in PrawKinds /\ pc \in InTry) =>
          /\ exc' = NONE
          /\ uncaught' = NONE
          /\ pc' = "loop"
          /\ idx' = idx
          /\ trained' = trained
          /\ Len(log') = Len(log) + 1
          /\ log'[Len(log')][1] = "ERROR"
          /\ log'[Len(log')][3] = exc]_vars

\* C6 witness: a thread ended in a praw exception and the thread after it
\* was processed to its end and trained on.
C6_Witness ==
    \E k \in DOMAIN outcomes :
        /\ outcomes[k].how \in PrawKinds
        /\ k + 1 \in DOMAIN outcomes
        /\ outcomes[k + 1].how = "completed"
        /\ \E j \in DOMAIN trained : trained[j].thread = k + 1

\* C7: a 429 assertion in flight inside the try is followed by one sleep of
\* 60 with what bot.train received unchanged and control back at the for
\* statement; no other step sleeps 60; and bot.train is only ever called for
\* the submission being processed, which has no outcome yet, so that none
\* follows for the abandoned thread.
C7_RateLimitBackoff ==
    /\ [][(exc = "AssertionError 429" /\ pc \in InTry) =>
             /\ trained' = trained
             /\ backoffs' = Append(backoffs, BackoffSeconds)
             /\ pc' = "loop"
             /\ idx' = idx
             /\ exc' = NONE
             /\ uncaught' = NONE
             /\ Len(outcomes') = idx]_vars
    /\ [][(backoffs' # backoffs /\ pc # "praw") =>
             (exc = "AssertionError 429" /\ pc \in InTry)]_vars
    /\ [][trained' # trained =>
             /\ Len(trained') = Len(trained) + 1
             /\ SubSeq(trained', 1, Len(trained)) = trained
             /\ trained'[Len(trained')].thread = idx
             /\ Len(outcomes) = idx - 1]_vars
    /\ [][(pc = "loop" /\ pc' = "attrs") => idx' = idx + 1]_vars

\* C7 witness: a thread was abandoned on a 429 after a sequence of it had
\* been handed over, the harvester slept 60 once, and the thread after it
\* was processed to its end and trained on.
C7_Witness ==
    \E k \in DOMAIN outcomes :
        /\ outcomes[k].how = "AssertionError 429"
        /\ \E j \in DOMAIN trained : trained[j].thread = k
        /\ backoffs = <<BackoffSeconds>>
        /\ k + 1 \in DOMAIN outcomes
        /\ outcomes[k + 1].how = "completed"
        /\ \E j \in DOMAIN trained : trained[j].thread = k + 1

\* C8 as claimed: nothing but a missing credential (the exit) or a user
\* interrupt ends reddit_training early; no error of the source leaves it.
C8_SourceErrorsAbsorbed ==
    /\ uncaught \in {NONE, "KeyboardInterrupt"}
    /\ pc = "crashed" => uncaught = "KeyboardInterrupt"

\* C9 as claimed: when a REDDIT_* variable is unset the process exits with
\* a status other than 0, having opened no connection, and the last record
\* logged names the first unset variable.
C9_ExitBeforeAnyConnection ==
    pc = "exit" =>
        /\ exitStatus # {} /\ 0 \notin exitStatus
        /\ log # <<>>
        /\ log[Len(log)] = <<"ERROR", "export", RedditVars[FirstMissing(env)]>>
        /\ connections = {}

\* C10: a run of reddit_training that follows another against the same
\* static source ends having handed bot.train the same sequences in the same
\* order, whatever the bot's database holds by then.
C10_RerunHandsSameSequences ==
    (run > 1 /\ pc \in Terminal) => trained = firstRun

\* C10 witness: a second run ended that handed over two sequences, all of
\* them already in the bot's database when it started.
C10_Witness ==
    /\ run = 2
    /\ pc = "done"
    /\ Len(trained) >= 2
    /\ \A j \in DOMAIN firstRun : firstRun[j].seq \in store
    /\ trained = firstRun

\* C11 as claimed: a user interrupt never leaves reddit_training as an
\* error: the run does not end with KeyboardInterrupt uncaught, and what
\* bot.train received by then are sequences of at least 5 built from one
\* comment each.
C11_InterruptEndsGracefully ==
    /\ uncaught # "KeyboardInterrupt"
    /\ \A j \in DOMAIN trained :
          /\ Len(trained[j].seq) >= MinSequenceLength
          /\ trained[j].seq[1] = Body(trained[j].id, trained[j].comment)

\* The values a caller may configure min_sequence_length with: the one of
\* the specification's scenario and the default.
ConfiguredMinLengths == {2, MinSequenceLength}

\* The values a caller may configure max_reply_length with.
ConfiguredMaxLengths == {MaxReplyLength}

\* The cleaned direct replies of comment c of thread t, in the source's order.
CleanedReplies(t, c) ==
    [i \in 1..Len(Replies(t, c)) |-> Cleaned(t, Replies(t, c)[i])]

\* The reference result for comment c of thread t and maximum length L.
Reference(t, c, L) ==
    <<Body(t, c)>>
    \o SelectSeq(CleanedReplies(t, c),
                 LAMBDA x : Len(x) < L /\ x # RemovedMarker)

ReferenceTable ==
    [t \in ThreadIds |->
        [c \in Nodes(t) |->
            [L \in ConfiguredMaxLengths |-> Reference(t, c, L)]]]

\* What bot.train received for comment c of the k-th submission, in order.
SequencesFor(k, c) ==
    LET js == SelectSeq([j \in 1..Len(trained) |-> j],
                        LAMBDA j : trained[j].thread = k
                                   /\ trained[j].comment = c)
    IN  [i \in 1..Len(js) |-> trained[js[i]].seq]

\* The output for the comments of the submissions processed to their end
\* is the reference result for min_sequence_length m and max_reply_length L.
OutputIsReference(m, L) ==
    \A k \in DOMAIN outcomes :
        outcomes[k].how = "completed" =>
            \A c \in Listed(outcomes[k].id) :
                SequencesFor(k, c) =
                    IF Len(ReferenceTable[outcomes[k].id][c][L]) >= m
                    THEN <<ReferenceTable[outcomes[k].id][c][L]>>
                    ELSE <<>>

\* C12 as claimed: for every configured min_sequence_length m and
\* max_reply_length L, what bot.train received for a comment of a thread
\* processed to its end is the reference list (the comment's body, then its
\* cleaned direct replies shorter than L and not '[removed]', in order) if
\* that list has at least m elements, and nothing otherwise.
C12_OutputIsConfiguredReference ==
    \A m \in ConfiguredMinLengths :
        \A L \in ConfiguredMaxLengths : OutputIsReference(m, L)

\* The errors of the source that are not a rate limit.
NonRateLimitErrors == PrawKinds \cup {"AssertionError"}

\* C13: a non-rate-limit error in flight inside the try is followed by one
\* step that leaves what bot.train received as it is and takes control to
\* the for statement with the listing where it was; the next submission
\* taken is the next of the listing, never the one abandoned; bot.train is
\* only called for the submission in hand; and of a thread that ended in
\* such an error the comments before the failing one have what they are
\* owed and the comments after it have nothing.
C13_NoRetryAfterError ==
    /\ [][(exc \in NonRateLimitErrors /\ pc \in InTry) =>
             /\ trained' = trained
             /\ backoffs' = backoffs
             /\ pc' = "loop"
             /\ idx' = idx
             /\ exc' = NONE
             /\ outcomes' = Append(outcomes, [id |-> submission, how |-> exc])]_vars
    /\ [][(pc = "loop" /\ pc' = "attrs") =>
             (idx' = idx + 1 /\ Len(outcomes) = idx)]_vars
    /\ [][trained' # trained =>
             /\ SubSeq(trained', 1, Len(trained)) = trained
             /\ \A j \in (Len(trained) + 1)..Len(trained') :
                   trained'[j].thread = idx /\ trained'[j].id = submission
             /\ Len(outcomes) = idx - 1]_vars
    /\ [](\A k \in DOMAIN outcomes :
            outcomes[k].how \in NonRateLimitErrors =>
                LET t == outcomes[k].id
                    F == Flatten(t)
                IN  \E p \in 0..Len(F) :
                        \A i \in DOMAIN F :
                            /\ i < p => Calls(k, F[i]) = Owed(t, F[i])
                            /\ i = p => Calls(k, F[i]) <= Owed(t, F[i])
                            /\ i > p => Calls(k, F[i]) = 0)

\* C13 witness: a thread ended in a non-rate-limit error after one of its
\* comments was trained on and before another that had enough replies was
\* reached, and the thread after it was processed to its end.
C13_Witness ==
    \E k \in DOMAIN outcomes :
        /\ outcomes[k].how \in NonRateLimitErrors
        /\ \E c, d \in Listed(outcomes[k].id) :
              /\ Calls(k, c) = 1
              /\ Owed(outcomes[k].id, d) = 1 /\ Calls(k, d) = 0
        /\ k + 1 \in DOMAIN outcomes
        /\ outcomes[k + 1].how = "completed"

\* C14 as claimed: when the caller passes a limit, no more submissions than
\* that are taken from the listing and processed; when it passes none the
\* limit used is 9, and when it passes no topic the topic used is 'all'.
C14_AtMostLimitThreads ==
    /\ args.lim # NoLimit =>
          (idx <= args.lim[1] /\ Len(outcomes) <= args.lim[1])
    /\ pc \in {"loop", "done"} \cup InTry =>
          /\ args.lim = NoLimit => (lim = <<DefaultLimit>> /\ idx <= DefaultLimit)
          /\ args.sub = NONE => sub = "all"
          /\ args.sub \notin {NONE, ""} => sub = args.sub

\* The calls that traverse the comments of a submission or emit a sequence.
TraversalCalls == {"comment", "sleep", "reply", "train"}

\* C15: for a submission without author no call is made on its comments
\* (no expansion, no flattening, no traversal) and nothing is handed to
\* bot.train; for a submission with an author replace_more comes before
\* list(), and both before any comment is taken, any reply handled and any
\* sequence handed to bot.train.
C15_ExpansionBeforeTraversal ==
    /\ []((submission # 0 /\ ~Author(submission)) =>
            /\ steps = <<>>
            /\ comments_list = <<>>
            /\ pc \notin {"expand", "comment", "reply", "check"})
    /\ [](\A i \in DOMAIN steps :
            /\ steps[i] \in TraversalCalls \cup {"list"} =>
                  \E j \in 1..(i - 1) : steps[j] = "replace_more"
            /\ steps[i] \in TraversalCalls =>
                  \E j \in 1..(i - 1) : steps[j] = "list")
    /\ [](pc \in {"comment", "reply", "check"} =>
            /\ "replace_more" \in Range(steps)
            /\ comments_list = Flatten(submission))
    /\ [][trained' # trained =>
             /\ Author(submission)
             /\ "replace_more" \in Range(steps)
             /\ "list" \in Range(steps)]_vars
    /\ [][(pc = "attrs" /\ exc = NONE /\ ~Author(submission)) =>
             /\ steps' = <<>>
             /\ trained' = trained
             /\ pc' = "loop" \/ exc' \in SourceErrors]_vars

\* C15 witness: a submission without author was skipped, and for a later
\* submission a sequence was handed to bot.train after its expansion.
C15_Witness ==
    /\ \E k \in DOMAIN outcomes : outcomes[k].how = "deleted"
    /\ "train" \in Range(steps)
    /\ steps[1] = "replace_more"

\* The number of pauses among the calls made after call p and before call i.
PausesBetween(p, i) ==
    Cardinality({j \in (p + 1)..(i - 1) : steps[j] = "sleep"})

\* The last call before call i that took a comment or handled a reply.
LastHandledBefore(i) ==
    CHOOSE p \in 1..(i - 1) :
        /\ steps[p] \in {"comment", "reply"}
        /\ \A q \in (p + 1)..(i - 1) : steps[q] \notin {"comment", "reply"}

\* C16 as claimed: every reply is handled after exactly one pause taken
\* since the reply before it was handled, or, for the first reply of a
\* comment, since the comment was taken.
C16_PauseBeforeEachReply ==
    \A i \in DOMAIN steps :
        steps[i] = "reply" =>
            /\ \E p \in 1..(i - 1) : steps[p] \in {"comment", "reply"}
            /\ PausesBetween(LastHandledBefore(i), i) = 1

\* The number of comments of the submissions outcomes[1..n].
RECURSIVE CommentsOfOutcomes(_)
CommentsOfOutcomes(n) ==
    IF n = 0 THEN 0
    ELSE Len(FlattenTable[outcomes[n].id]) + CommentsOfOutcomes(n - 1)

\* The number of comments of the submissions pulled so far.
PulledComments ==
    CommentsOfOutcomes(Len(outcomes))
    + (IF submission # 0 THEN Len(FlattenTable[submission]) ELSE 0)

\* C17: every run of reddit_training ends (it returns, exits or is left by
\* an exception), whatever the source raises; bot.train receives at most
\* one sequence per comment of a submission, and never more sequences than
\* the submissions pulled have comments.
C17_TerminatesWithBoundedOutput ==
    /\ <>(pc \in Terminal)
    /\ [](\A j \in DOMAIN trained :
            Calls(trained[j].thread, trained[j].comment) <= 1)
    /\ [](Len(trained) <= PulledComments)
    /\ [](idx <= MaxThreads /\ idx <= lim[1])

\* C17 witness: a run returned after an error of the source, a back-off of
\* 60 seconds and two sequences handed to bot.train.
C17_Witness ==
    /\ pc = "done"
    /\ backoffs = <<BackoffSeconds>>
    /\ \E k \in DOMAIN outcomes : outcomes[k].how \in PrawKinds
    /\ Len(trained) >= 2

\* The platform markers: the prefix or suffix '/r/' and the character '^'.
SubredditMarker == <<"/", "r", "/">>

StartsWith(s, m) == Len(s) >= Len(m) /\ SubSeq(s, 1, Len(m)) = m

EndsWith(s, m) ==
    Len(s) >= Len(m) /\ SubSeq(s, Len(s) - Len(m) + 1, Len(s)) = m

\* A text that carries no marker at either end.
CarriesNoMarker(s) ==
    /\ ~StartsWith(s, SubredditMarker) /\ ~EndsWith(s, SubredditMarker)
    /\ ~StartsWith(s, <<"^">>) /\ ~EndsWith(s, <<"^">>)

\* A text with its markers removed and every other character left.
WithoutMarkers(s) ==
    LET a == IF StartsWith(s, SubredditMarker)
             THEN SubSeq(s, Len(SubredditMarker) + 1, Len(s)) ELSE s
        b == IF EndsWith(a, SubredditMarker)
             THEN SubSeq(a, 1, Len(a) - Len(SubredditMarker)) ELSE a
    IN  Strip(b, {"^"})

\* C18 as claimed: every reply in a sequence handed to bot.train is the
\* body of the reply with its markers removed and every other character
\* left, so a reply that carries no marker is there unchanged; and it is
\* the cleaned text that passed the length test and the '[removed]' test.
C18_CleaningRemovesOnlyMarkers ==
    \A j \in DOMAIN trained :
        \A i \in 2..Len(trained[j].seq) :
            LET raw == Body(trained[j].id, trained[j].nodes[i]) IN
            /\ trained[j].seq[i] = WithoutMarkers(raw)
            /\ CarriesNoMarker(raw) => trained[j].seq[i] = raw
            /\ PassesFilter(trained[j].seq[i])

\* C19 as claimed: in reddit_training of bot.py a submission without
\* author hands nothing to bot.train and raises no error: no AttributeError
\* is in flight or leaves the function.
C19_BotSkipsDeletedThread ==
    /\ \A j \in DOMAIN trained : Author(trained[j].id)
    /\ exc # "AttributeError"
    /\ uncaught # "AttributeError"

\* The check order the functions are said to follow.
C20_CheckOrder(fn) ==
    CASE fn = "get_reddit_envars" ->
            <<"REDDIT_CLIENT_ID", "REDDIT_CLIENT_SECRET", "REDDIT_USERNAME",
              "REDDIT_PASSWORD">>
      [] fn = "get_twitter_envars" ->
            <<"TWITTER_KEY", "TWITTER_SECRET", "TWITTER_TOKEN",
              "TWITTER_TOKEN_SECRET">>
      [] fn = "get_hipchat_envars" ->
            <<"HIPCHAT_HOST", "HIPCHAT_ROOM", "HIPCHAT_ACCESS_TOKEN">>
      [] fn = "get_gitter_envars" ->
            <<"GITTER_ROOM", "GITTER_API_TOKEN">>

\* One call of a credential function as it is said to act.
C20_ValidatedCall ==
    pc \in {"get_gitter_envars", "get_hipchat_envars",
            "get_twitter_envars", "get_reddit_envars"}
    => \/ /\ \A v \in DOMAIN env : env[v] # NONE
          /\ credentials' = env
          /\ Len(credentials') = Len(C20_CheckOrder(pc))
          /\ exitStatus' = {}
          /\ log' = log
          /\ pc' \notin {"exit", "crashed"}
       \/ \E v \in DOMAIN env :
             /\ env[v] = NONE
             /\ \A u \in 1..(v - 1) : env[u] # NONE
             /\ log' = Append(log, <<"ERROR", "export", C20_CheckOrder(pc)[v]>>)
             /\ credentials' = <<>>
             /\ exitStatus' = {1}
             /\ pc' = "exit"

\* C20: a credential function returns the tuple only if every variable it
\* reads is set, the empty string counting as set, and the tuple returned
\* is whole; otherwise it logs exactly one hint, naming the first unset
\* variable in the check order, exits with status 1 and returns nothing.
C20_CredentialValidation == [][C20_ValidatedCall]_vars

\* C20 happens: with the first variable set to the empty string and two
\* later ones unset, the one hint names the first of the unset ones and the
\* process has exited with nothing returned.
C20_Witness ==
    /\ pc = "exit"
    /\ Len(env) = 4
    /\ env[1] = ""
    /\ env[2] # NONE
    /\ env[3] = NONE
    /\ env[4] = NONE
    /\ exitStatus = {1}
    /\ Len(log) = 1
    /\ log[1][3] \in {"REDDIT_USERNAME", "TWITTER_TOKEN"}
    /\ credentials = <<>>

\* The failures that are assertion failures.
C21_AssertionStyle ==
    {"AssertionError", "AssertionError 429", "AssertionError 14290",
     "AssertionError 4 2 9"}

\* The message of the failure in flight has 4, 2, 9 in a row somewhere.
C21_MessageHas429 ==
    \E i \in 1..(Len(MessageOf(exc)) - 2) :
        /\ MessageOf(exc)[i] = "4"
        /\ MessageOf(exc)[i + 1] = "2"
        /\ MessageOf(exc)[i + 2] = "9"

\* The step that handles a failure raised while a thread is processed.
C21_HandledByMessage ==
    (pc \in InTry /\ exc # NONE) =>
        /\ backoffs' # backoffs <=>
              (exc \in C21_AssertionStyle /\ C21_MessageHas429)
        /\ backoffs' # backoffs => backoffs' = Append(backoffs, BackoffSeconds)
        /\ (exc \in C21_AssertionStyle /\ ~C21_MessageHas429) =>
              /\ log' = log
              /\ trained' = trained
              /\ outcomes' = Append(outcomes, [id |-> submission, how |-> exc])
              /\ exc' = NONE
              /\ uncaught' = NONE
              /\ pc' = "loop"
              /\ idx' = idx

\* C21: for a failure caught while a thread is processed, the pause of 60
\* is taken exactly when the failure is an assertion failure whose message
\* contains 429; an assertion failure without 429 in its message is
\* absorbed with no pause and no log record, its thread is given up and
\* the harvest goes on at the listing.
C21_RateLimitByMessage == [][C21_HandledByMessage]_vars

\* C21 happens: a thread failed with an assertion failure whose message
\* has the digits 4, 2, 9 apart; nothing was logged, no pause was taken,
\* and the thread after it was harvested to its end.
C21_Witness ==
    \E k \in DOMAIN outcomes :
        /\ outcomes[k].how = "AssertionError 4 2 9"
        /\ backoffs = <<>>
        /\ log = <<>>
        /\ k + 1 \in DOMAIN outcomes
        /\ outcomes[k + 1].how = "completed"
        /\ \E j \in DOMAIN trained : trained[j].thread = k + 1

\* The event in hand is a direct message of an account other than the
\* authenticated one.
C22_DirectMessageOfOther ==
    /\ event # <<>>
    /\ event[1].key = "direct_message"
    /\ event[1].sender_id # MeId

\* A step that generates a response, sends, or updates the bot.
C22_Answers ==
    \/ Len(steps') > Len(steps)
    \/ sent' # sent
    \/ learned' # learned
    \/ session' # session

\* The direct messages of other accounts among the first n events.
C22_Answerable(n) ==
    {i \in 1..n : /\ delivered[i].key = "direct_message"
                  /\ delivered[i].sender_id # MeId}

\* C22: the listener generates a response, sends a direct message and
\* updates the bot only while it handles a direct message whose sender is
\* not the authenticated account; so no message goes to the account
\* itself, and there are never more sends, learnings or session updates
\* than direct messages of other accounts delivered.
C22_NeverAnswersItself ==
    /\ [][C22_Answers => C22_DirectMessageOfOther]_vars
    /\ [](/\ \A i \in DOMAIN sent : sent[i].to # "bot"
          /\ Len(sent) <= Cardinality(C22_Answerable(Len(delivered)))
          /\ Len(learned) <= Len(sent)
          /\ Len(session) <= Len(learned))

\* C22 happens: a direct message of a friend was answered and learned,
\* then a direct message of the account itself came in and on_data
\* returned with no further send.
C22_Witness ==
    /\ pc = "listening"
    /\ Len(delivered) = 2
    /\ delivered[1].key = "direct_message"
    /\ delivered[1].sender_id = FriendId
    /\ delivered[2].key = "direct_message"
    /\ delivered[2].sender_id = MeId
    /\ Len(sent) = 1
    /\ Len(learned) = 1
    /\ Len(session) = 1

====
